---- MODULE Spec2Model ----
(***************************************************************************)
(* Model of CuboidToEllipsoid.py: plot_cuboid_and_ellipsoid(a, b, c,       *)
(* annotate_vertices).  One call is a straight-line run through the ten    *)
(* numbered steps of the function; the renderer (matplotlib) is modelled   *)
(* by the log of the calls it receives.  A second call, on scaled          *)
(* dimensions, follows the first so that two calls can be compared.        *)
(*                                                                         *)
(* Numbers.  The function computes with a/2 and (sqrt(3)/2)*a.  The model  *)
(* computes in exact arithmetic in the field Q(sqrt 3): a number is a      *)
(* record [p, q, d] standing for (p + q*sqrt(3)) / d, kept in lowest terms *)
(* with d > 0, so that equal numbers are equal records.  The rounding of   *)
(* IEEE doubles is not modelled.                                           *)
(***************************************************************************)
EXTENDS Integers, Sequences, FiniteSets, TLC

VARIABLES a, b, c, annotate_vertices,
          hx, hy, hz, corners, edges, k, rx, ry, rz,
          max_range, i, calls, pc, prev

vars == <<a, b, c, annotate_vertices, hx, hy, hz, corners, edges, k,
          rx, ry, rz, max_range, i, calls, pc, prev>>

(* ------------------------------ bounds -------------------------------- *)

\* input dimensions are n / DimDen for n in -MaxNeg .. MaxNum
MaxNum == 3
MaxNeg == 1
DimDen == 2
\* the second call scales the first call's dimensions by 1/2 or by 1 .. MaxFactor
MaxFactor == 2
\* candidate squared semi-axes are n / CandDen for n in 1 .. MaxCand
MaxCand == 12
CandDen == 16

(* ------------------------- arithmetic in Q(sqrt 3) --------------------- *)

Abs(n) == IF n < 0 THEN -n ELSE n

RECURSIVE GCD(_, _)
GCD(m, n) == IF n = 0 THEN m ELSE GCD(n, m % n)

\* (p + q*sqrt(3)) / d in lowest terms, d > 0
Norm(p, q, d) ==
  LET s == IF d < 0 THEN -1 ELSE 1
      g == GCD(GCD(Abs(p), Abs(q)), Abs(d))
  IN  [p |-> (s * p) \div g, q |-> (s * q) \div g, d |-> (s * d) \div g]

Rat(n, d) == Norm(n, 0, d)
Zero == Rat(0, 1)
One == Rat(1, 1)
Two == Rat(2, 1)
Three == Rat(3, 1)

\* a local that has not been assigned yet
Unbound == [p |-> 0, q |-> 0, d |-> 0]

Add(x, y) == Norm(x.p * y.d + y.p * x.d, x.q * y.d + y.q * x.d, x.d * y.d)
Neg(x) == [p |-> -x.p, q |-> -x.q, d |-> x.d]
Sub(x, y) == Add(x, Neg(y))
Mul(x, y) == Norm(x.p * y.p + 3 * x.q * y.q, x.p * y.q + x.q * y.p, x.d * y.d)
\* x / y for y # 0: by a rational directly, otherwise multiply by the
\* conjugate of y
Div(x, y) ==
  IF y.q = 0
    THEN Norm(x.p * y.d, x.q * y.d, x.d * y.p)
    ELSE Norm((x.p * y.p - 3 * x.q * y.q) * y.d,
              (x.q * y.p - x.p * y.q) * y.d,
              x.d * (y.p * y.p - 3 * y.q * y.q))
Sq(x) == Mul(x, x)

\* -1, 0 or 1: the sign of (p + q*sqrt(3)) / d
Sign(x) ==
  IF x.p = 0 /\ x.q = 0 THEN 0
  ELSE IF x.p >= 0 /\ x.q >= 0 THEN 1
  ELSE IF x.p <= 0 /\ x.q <= 0 THEN -1
  ELSE IF x.p > 0 THEN (IF x.p * x.p > 3 * x.q * x.q THEN 1 ELSE -1)
  ELSE (IF 3 * x.q * x.q > x.p * x.p THEN 1 ELSE -1)

Less(x, y) == Sign(Sub(x, y)) < 0
Leq(x, y) == Sign(Sub(x, y)) <= 0

\* np.sqrt(3)
Sqrt3 == [p |-> 0, q |-> 1, d |-> 1]

\* Python's max(x, y, z): the first of the largest
Max3(x, y, z) ==
  LET m == IF Less(x, y) THEN y ELSE x
  IN  IF Less(m, z) THEN z ELSE m

Min3(x, y, z) ==
  LET m == IF Less(y, x) THEN y ELSE x
  IN  IF Less(z, m) THEN z ELSE m

(* ------------------------------ geometry ------------------------------- *)

\* x // 2: floor division, which drops the fraction
HalfFloor(x) == Rat((x.p) \div (2 * x.d), 1)

\* abs(x) / 2: a half-dimension forced non-negative
HalfAbs(x) == Div(Rat(Abs(x.p), x.d), Two)

\* a/2, b/2, c/2
Half(x) == Div(x, Two)

\* the tuple (-1, 1) each sign loop runs over
Signs == <<-1, 1>>

\* the same corner with sy used for the z coordinate too
CornerRepeatedSign(sx, sy, sz, h1, h2, h3) ==
  <<Mul(Rat(sx, 1), h1), Mul(Rat(sy, 1), h2), Mul(Rat(sy, 1), h3)>>

\* [sx*hx, sy*hy, sz*hz]
Corner(sx, sy, sz, h1, h2, h3) ==
  <<Mul(Rat(sx, 1), h1), Mul(Rat(sy, 1), h2), Mul(Rat(sz, 1), h3)>>

\* the comprehension with the loops nested the other way round: sz outermost
CornerListZOuter(h1, h2, h3) ==
  LET row(sz, sy) == [n \in 1..Len(Signs) |-> Corner(Signs[n], sy, sz, h1, h2, h3)]
      plane(sz) == row(sz, Signs[1]) \o row(sz, Signs[2])
  IN  plane(Signs[1]) \o plane(Signs[2])

\* the list comprehension: for sx, for sy, for sz, innermost last
CornerList(h1, h2, h3) ==
  LET row(sx, sy) == [n \in 1..Len(Signs) |-> Corner(sx, sy, Signs[n], h1, h2, h3)]
      plane(sx) == row(sx, Signs[1]) \o row(sx, Signs[2])
  IN  plane(Signs[1]) \o plane(Signs[2])

\* the edge list with (3, 7) mistyped as (3, 6)
EdgeListSlip ==
  << <<0, 1>>, <<0, 2>>, <<0, 4>>,
     <<1, 3>>, <<1, 5>>,
     <<2, 3>>, <<2, 6>>,
     <<3, 6>>,
     <<4, 5>>, <<4, 6>>,
     <<5, 7>>,
     <<6, 7>> >>

\* edges: index pairs into corners (0-based, as in the source)
EdgeList ==
  << <<0, 1>>, <<0, 2>>, <<0, 4>>,
     <<1, 3>>, <<1, 5>>,
     <<2, 3>>, <<2, 6>>,
     <<3, 7>>,
     <<4, 5>>, <<4, 6>>,
     <<5, 7>>,
     <<6, 7>> >>

\* the factor without the division by 2: sqrt(3)
RadiusFactorNoHalf == Sqrt3

\* the factor without the square root: 3 / 2
RadiusFactorNoRoot == Div(Three, Two)

\* k = np.sqrt(3) / 2
RadiusFactor == Div(Sqrt3, Two)

\* max_range taken as the smallest dimension
MaxRangeMin(x, y, z) == Min3(x, y, z)

\* max_range = max(a, b, c)
MaxRange(x, y, z) == Max3(x, y, z)

(* ------------------------------ renderer ------------------------------- *)

\* one call received by the renderer: its name, its numeric arguments, its text
Call(op, nums, text) == [op |-> op, nums |-> nums, text |-> text]

Digits == <<"0", "1", "2", "3", "4", "5", "6", "7", "8", "9">>

\* f'{idx}': the decimal digits of a non-negative integer
RECURSIVE FormatInt(_)
FormatInt(n) ==
  IF n < 10 THEN Digits[n + 1]
  ELSE FormatInt(n \div 10) \o Digits[(n % 10) + 1]

\* xs, ys, zs = zip(corners[i], corners[j]); ax.plot(xs, ys, zs, ...)
PlotSegment(ci, cj) ==
  Call("plot", <<ci[1], cj[1], ci[2], cj[2], ci[3], cj[3]>>, "")

\* the annotation of one vertex with its label counted from 1
DrawVertexOneBased(log, idx, v) ==
  Append(Append(log, Call("scatter", v, "")), Call("text", v, FormatInt(idx + 1)))

\* ax.scatter(x0, y0, z0, ...); ax.text(x0, y0, z0, f'{idx}', ...)
DrawVertex(log, idx, v) ==
  Append(Append(log, Call("scatter", v, "")), Call("text", v, FormatInt(idx)))

\* number of samples of each angle: np.linspace(.., .., 80)
SurfaceRes == 80

\* the surface X_e, Y_e, Z_e is a function of the semi-axes and the fixed
\* 80 x 80 grid of angles; the call is recorded by those
PlotSurface(r1, r2, r3) ==
  Call("plot_surface", <<r1, r2, r3, Rat(SurfaceRes, 1), Rat(SurfaceRes, 1)>>, "")

\* for setter in (ax.set_xlim, ax.set_ylim, ax.set_zlim): setter(-m/2, m/2)
Setters == <<"set_xlim", "set_ylim", "set_zlim">>
SetLimits(log, m) ==
  log \o [n \in 1..Len(Setters) |->
            Call(Setters[n], <<Div(Neg(m), Two), Div(m, Two)>>, "")]

\* where the function goes after the edge loop when the surface plot sits
\* inside the annotation branch
AfterEdgesSurfaceInBranch(flag) == IF flag THEN "annotate" ELSE "limits"

\* if annotate_vertices: ... ; else straight to the surface
AfterEdges(flag) == IF flag THEN "annotate" ELSE "surface"

(* ------------------------------ the call ------------------------------- *)

Dims == {Rat(n, DimDen) : n \in (-MaxNeg)..MaxNum}
Factors == {Rat(1, 2)} \cup {Rat(n, 1) : n \in 1..MaxFactor}

Init ==
  /\ a \in Dims /\ b \in Dims /\ c \in Dims
  /\ annotate_vertices \in BOOLEAN
  /\ hx = Unbound /\ hy = Unbound /\ hz = Unbound
  /\ corners = <<>> /\ edges = <<>>
  /\ k = Unbound /\ rx = Unbound /\ ry = Unbound /\ rz = Unbound
  /\ max_range = Unbound
  /\ i = 0
  /\ calls = <<>>
  /\ pc = "half"
  /\ prev = <<>>

\* 1. hx, hy, hz = a/2, b/2, c/2
HalfDimensions ==
  /\ pc = "half"
  /\ hx' = Half(a) /\ hy' = Half(b) /\ hz' = Half(c)
  /\ pc' = "corners"
  /\ UNCHANGED <<a, b, c, annotate_vertices, corners, edges, k, rx, ry, rz,
                 max_range, i, calls, prev>>

\* 2. corners = np.array([...])
CuboidVertices ==
  /\ pc = "corners"
  /\ corners' = CornerList(hx, hy, hz)
  /\ pc' = "edges"
  /\ UNCHANGED <<a, b, c, annotate_vertices, hx, hy, hz, edges, k, rx, ry, rz,
                 max_range, i, calls, prev>>

\* 3. edges = [...]
EdgeIndexPairs ==
  /\ pc = "edges"
  /\ edges' = EdgeList
  /\ pc' = "radii"
  /\ UNCHANGED <<a, b, c, annotate_vertices, hx, hy, hz, corners, k, rx, ry, rz,
                 max_range, i, calls, prev>>

\* 4. k = np.sqrt(3) / 2; rx, ry, rz = k * a, k * b, k * c
EllipsoidRadii ==
  /\ pc = "radii"
  /\ k' = RadiusFactor
  /\ rx' = Mul(k', a) /\ ry' = Mul(k', b) /\ rz' = Mul(k', c)
  /\ pc' = "figure"
  /\ UNCHANGED <<a, b, c, annotate_vertices, hx, hy, hz, corners, edges,
                 max_range, i, calls, prev>>

\* 5. fig = plt.figure(); ax = fig.add_subplot(111, projection='3d')
PrepareFigure ==
  /\ pc = "figure"
  /\ calls' = <<Call("figure", <<>>, ""), Call("add_subplot", <<>>, "3d")>>
  /\ i' = 0
  /\ pc' = "plot_edges"
  /\ UNCHANGED <<a, b, c, annotate_vertices, hx, hy, hz, corners, edges, k,
                 rx, ry, rz, max_range, prev>>

\* 6. one iteration of: for i, j in edges: ax.plot(...)
PlotEdge ==
  /\ pc = "plot_edges"
  /\ i < Len(edges)
  /\ LET e == edges[i + 1]
     IN  calls' = Append(calls, PlotSegment(corners[e[1] + 1], corners[e[2] + 1]))
  /\ IF i + 1 < Len(edges)
       THEN i' = i + 1 /\ pc' = "plot_edges"
       ELSE i' = 0 /\ pc' = AfterEdges(annotate_vertices)
  /\ UNCHANGED <<a, b, c, annotate_vertices, hx, hy, hz, corners, edges, k,
                 rx, ry, rz, max_range, prev>>

\* 7. one iteration of: for idx, (x0, y0, z0) in enumerate(corners): ...
AnnotateVertex ==
  /\ pc = "annotate"
  /\ i < Len(corners)
  /\ calls' = DrawVertex(calls, i, corners[i + 1])
  /\ IF i + 1 < Len(corners)
       THEN i' = i + 1 /\ pc' = "annotate"
       ELSE i' = 0 /\ pc' = "surface"
  /\ UNCHANGED <<a, b, c, annotate_vertices, hx, hy, hz, corners, edges, k,
                 rx, ry, rz, max_range, prev>>

\* 8. the parametric surface of the ellipsoid
EllipsoidSurface ==
  /\ pc = "surface"
  /\ calls' = Append(calls, PlotSurface(rx, ry, rz))
  /\ pc' = "limits"
  /\ UNCHANGED <<a, b, c, annotate_vertices, hx, hy, hz, corners, edges, k,
                 rx, ry, rz, max_range, i, prev>>

\* 9. max_range = max(a, b, c) and the three limit setters
EqualAspect ==
  /\ pc = "limits"
  /\ max_range' = MaxRange(a, b, c)
  /\ calls' = SetLimits(calls, max_range')
  /\ pc' = "labels"
  /\ UNCHANGED <<a, b, c, annotate_vertices, hx, hy, hz, corners, edges, k,
                 rx, ry, rz, i, prev>>

\* 10. axis labels and the title
LabelsAndTitle ==
  /\ pc = "labels"
  /\ calls' = calls \o <<Call("set_xlabel", <<>>, "X"),
                         Call("set_ylabel", <<>>, "Y"),
                         Call("set_zlabel", <<>>, "Z"),
                         Call("set_title", <<a, b, c>>,
                              "Cuboid {a}x{b}x{c} and its Circumscribing Ellipsoid")>>
  /\ pc' = "show"
  /\ UNCHANGED <<a, b, c, annotate_vertices, hx, hy, hz, corners, edges, k,
                 rx, ry, rz, max_range, i, prev>>

\* plt.show(), after which the function returns
Show ==
  /\ pc = "show"
  /\ calls' = Append(calls, Call("show", <<>>, ""))
  /\ pc' = "done"
  /\ UNCHANGED <<a, b, c, annotate_vertices, hx, hy, hz, corners, edges, k,
                 rx, ry, rz, max_range, i, prev>>

\* what a finished call computed and had drawn
Outcome ==
  [a |-> a, b |-> b, c |-> c, annotate_vertices |-> annotate_vertices,
   corners |-> corners, edges |-> edges, rx |-> rx, ry |-> ry, rz |-> rz,
   calls |-> calls]

\* the function is called again, on the dimensions of the finished call
\* scaled by a positive factor; every local starts unbound again
CallAgain ==
  /\ pc = "done"
  /\ prev = <<>>
  /\ prev' = <<Outcome>>
  /\ \E f \in Factors :
       /\ a' = Mul(f, a) /\ b' = Mul(f, b) /\ c' = Mul(f, c)
  /\ annotate_vertices' \in BOOLEAN
  /\ hx' = Unbound /\ hy' = Unbound /\ hz' = Unbound
  /\ corners' = <<>> /\ edges' = <<>>
  /\ k' = Unbound /\ rx' = Unbound /\ ry' = Unbound /\ rz' = Unbound
  /\ max_range' = Unbound
  /\ i' = 0
  /\ calls' = <<>>
  /\ pc' = "half"

Next ==
  \/ HalfDimensions
  \/ CuboidVertices
  \/ EdgeIndexPairs
  \/ EllipsoidRadii
  \/ PrepareFigure
  \/ PlotEdge
  \/ AnnotateVertex
  \/ EllipsoidSurface
  \/ EqualAspect
  \/ LabelsAndTitle
  \/ Show

\* one call of the function
Spec == Init /\ [][Next]_vars

NextTwoCalls ==
  \/ Next
  \/ CallAgain

\* a call followed by a second call on scaled dimensions
SpecTwoCalls == Init /\ [][NextTwoCalls]_vars

(* ------------------------- vocabulary of the claims -------------------- *)

Positive(x) == Sign(x) > 0
AllPositive == Positive(a) /\ Positive(b) /\ Positive(c)
CornerSet == {corners[n] : n \in 1..Len(corners)}
\* the sign a bit of the vertex index stands for: 0 is -1, 1 is +1
SignOfBit(bit) == IF bit = 0 THEN -1 ELSE 1
\* bit t of n, t = 0 the lowest
Bit(n, t) == (n \div (2 ^ t)) % 2
BitsDiffering(m, n) == Cardinality({t \in 0..2 : Bit(m, t) # Bit(n, t)})
\* the vertex the sign pattern (sx, sy, sz) names, from the dimensions
SignVertex(sx, sy, sz) ==
  <<Mul(Rat(sx, 1), Div(a, Two)), Mul(Rat(sy, 1), Div(b, Two)),
    Mul(Rat(sz, 1), Div(c, Two))>>
DimOf(t) == <<a, b, c>>[t]
RadiusOf(t) == <<rx, ry, rz>>[t]
EdgePairs == {{edges[n][1], edges[n][2]} : n \in 1..Len(edges)}
OneBitPairs ==
  {{pr[1], pr[2]} : pr \in {qr \in (0..7) \X (0..7) : BitsDiffering(qr[1], qr[2]) = 1}}

(* C1: for strictly positive (a, b, c) the function builds exactly 8
   vertices, their set is the set of the 8 sign combinations
   (+-a/2, +-b/2, +-c/2), and no vertex occurs twice. *)
C1_VerticesAreTheSignCombinations ==
  (AllPositive /\ corners # <<>>) =>
    /\ Len(corners) = 8
    /\ CornerSet = {SignVertex(sx, sy, sz) : sx \in {-1, 1}, sy \in {-1, 1}, sz \in {-1, 1}}
    /\ Cardinality(CornerSet) = 8
    /\ \A m \in 1..Len(corners), n \in 1..Len(corners) :
         m # n => corners[m] # corners[n]

C1_Witness ==
  /\ pc = "done" /\ AllPositive /\ a # b /\ b # c /\ a # c
  /\ Len(corners) = 8

(* C2: the edge list has exactly 12 entries and is exactly the set of index
   pairs in 0..7 that differ in exactly one bit, each listed once; the two
   endpoints of every edge share two coordinates and are opposite on the
   third. *)
C2_EdgesAreOneBitPairs ==
  (edges # <<>>) =>
    /\ Len(edges) = 12
    /\ EdgePairs = OneBitPairs
    /\ Cardinality(EdgePairs) = 12
    /\ \A n \in 1..Len(edges) : BitsDiffering(edges[n][1], edges[n][2]) = 1
    /\ \A n \in 1..Len(edges) :
         LET ci == corners[edges[n][1] + 1]
             cj == corners[edges[n][2] + 1]
         IN  \E t \in 1..3 :
               /\ ci[t] = Neg(cj[t])
               /\ (DimOf(t) # Zero => ci[t] # cj[t])
               /\ \A s \in (1..3) \ {t} : ci[s] = cj[s]

C2_Witness ==
  /\ pc = "plot_edges" /\ i = 7 /\ AllPositive /\ a # b /\ b # c
  /\ edges[i + 1] = <<3, 7>>

(* C3: for strictly positive (a, b, c) every vertex (x, y, z) satisfies
   (x/rx)^2 + (y/ry)^2 + (z/rz)^2 = 1 with rx, ry, rz = (sqrt(3)/2) a, b, c;
   each term is 1/3 and rx^2 = 3 a^2 / 4. *)
C3_VerticesOnEllipsoid ==
  (AllPositive /\ rx # Unbound) =>
    /\ rx = Mul(Div(Sqrt3, Two), a)
    /\ ry = Mul(Div(Sqrt3, Two), b)
    /\ rz = Mul(Div(Sqrt3, Two), c)
    /\ Sq(rx) = Div(Mul(Three, Sq(a)), Rat(4, 1))
    /\ \A n \in 1..Len(corners) :
         /\ Add(Add(Sq(Div(corners[n][1], rx)), Sq(Div(corners[n][2], ry))),
                Sq(Div(corners[n][3], rz))) = One
         /\ \A t \in 1..3 : Sq(Div(corners[n][t], RadiusOf(t))) = Rat(1, 3)

C3_Witness ==
  /\ pc = "figure" /\ AllPositive /\ a # b /\ b # c /\ a # c
  /\ Len(corners) = 8 /\ rx # Unbound

(* C4: the vertex at index i = 4*bitX + 2*bitY + bitZ is
   (sX*a/2, sY*b/2, sZ*c/2), each sign -1 for bit 0 and +1 for bit 1. *)
C4_VertexIndexIsBitPattern ==
  (corners # <<>>) =>
    \A bitX \in 0..1, bitY \in 0..1, bitZ \in 0..1 :
      corners[4 * bitX + 2 * bitY + bitZ + 1] =
        SignVertex(SignOfBit(bitX), SignOfBit(bitY), SignOfBit(bitZ))

C4_Witness ==
  /\ pc = "edges" /\ a # b /\ b # c /\ a # c /\ Positive(a) /\ Positive(c)
  /\ Sign(b) < 0
  /\ corners[6] = SignVertex(1, -1, 1)

(* C5: scaling the positive dimensions by a positive factor scales every
   vertex coordinate and every semi-axis by that factor at the same index,
   leaves the edge list identical and keeps rx : ry : rz = a : b : c. *)
C5_ScalingInvariance ==
  (prev # <<>> /\ pc = "done"
     /\ Positive(prev[1].a) /\ Positive(prev[1].b) /\ Positive(prev[1].c)) =>
    \A f \in Factors :
      (a = Mul(f, prev[1].a) /\ b = Mul(f, prev[1].b) /\ c = Mul(f, prev[1].c)) =>
        /\ Len(corners) = Len(prev[1].corners)
        /\ \A n \in 1..Len(corners) : \A t \in 1..3 :
             corners[n][t] = Mul(f, prev[1].corners[n][t])
        /\ rx = Mul(f, prev[1].rx)
        /\ ry = Mul(f, prev[1].ry)
        /\ rz = Mul(f, prev[1].rz)
        /\ edges = prev[1].edges
        /\ Mul(rx, b) = Mul(ry, a) /\ Mul(ry, c) = Mul(rz, b) /\ Mul(rx, c) = Mul(rz, a)
        /\ Mul(prev[1].rx, prev[1].b) = Mul(prev[1].ry, prev[1].a)
        /\ Mul(prev[1].ry, prev[1].c) = Mul(prev[1].rz, prev[1].b)

C5_Witness ==
  /\ prev # <<>> /\ pc = "done" /\ AllPositive /\ a # b /\ b # c
  /\ a = Mul(Two, prev[1].a) /\ b = Mul(Two, prev[1].b) /\ c = Mul(Two, prev[1].c)
  /\ corners[8][1] = prev[1].a

IsAnnotation(e) == e.op \in {"scatter", "text"}
NotAnnotation(e) == ~IsAnnotation(e)
IsPlot(e) == e.op = "plot"
IsSurface(e) == e.op = "plot_surface"
IsLimit(e) == e.op \in {"set_xlim", "set_ylim", "set_zlim"}

(* C6: for the same (a, b, c) the vertices, the edge list, the semi-axes,
   the edge segments drawn, the surface and the axis limits are the same
   with the flag true and with the flag false; the flag only adds or omits
   the marker and label calls. *)
C6_FlagLeavesGeometryAlone ==
  (prev # <<>> /\ pc = "done"
     /\ a = prev[1].a /\ b = prev[1].b /\ c = prev[1].c
     /\ annotate_vertices # prev[1].annotate_vertices) =>
    /\ corners = prev[1].corners
    /\ edges = prev[1].edges
    /\ rx = prev[1].rx /\ ry = prev[1].ry /\ rz = prev[1].rz
    /\ SelectSeq(calls, IsPlot) = SelectSeq(prev[1].calls, IsPlot)
    /\ SelectSeq(calls, IsSurface) = SelectSeq(prev[1].calls, IsSurface)
    /\ Len(SelectSeq(calls, IsSurface)) = 1
    /\ SelectSeq(calls, IsLimit) = SelectSeq(prev[1].calls, IsLimit)
    /\ SelectSeq(calls, NotAnnotation) = SelectSeq(prev[1].calls, NotAnnotation)
    /\ LET with == IF annotate_vertices THEN calls ELSE prev[1].calls
           without == IF annotate_vertices THEN prev[1].calls ELSE calls
       IN  /\ SelectSeq(without, IsAnnotation) = <<>>
           /\ SelectSeq(with, IsAnnotation) # <<>>
           /\ SelectSeq(with, NotAnnotation) = without

C6_Witness ==
  /\ prev # <<>> /\ pc = "done" /\ AllPositive /\ a # b
  /\ a = prev[1].a /\ b = prev[1].b /\ c = prev[1].c
  /\ annotate_vertices /\ ~prev[1].annotate_vertices
  /\ Len(calls) = Len(prev[1].calls) + 16

\* candidate squared semi-axes p^2, q^2
CandSq == {Rat(n, CandDen) : n \in 1..MaxCand}
Four == Rat(4, 1)
\* (a/2p)^2 + (b/2q)^2 + (c/2r)^2, for the squares P = p^2, Q = q^2, R = r^2
VertexForm(P, Q, R) ==
  Add(Add(Div(Sq(a), Mul(Four, P)), Div(Sq(b), Mul(Four, Q))),
      Div(Sq(c), Mul(Four, R)))
\* what the first two semi-axes leave for the third term: 1 - (a/2p)^2 - (b/2q)^2
Remainder(P, Q) ==
  Sub(Sub(One, Div(Sq(a), Mul(Four, P))), Div(Sq(b), Mul(Four, Q)))
\* the r^2 that puts the vertices on the ellipsoid with p^2 = P, q^2 = Q
ThirdSq(P, Q) == Div(Sq(c), Mul(Four, Remainder(P, Q)))
\* (p q r)^2 / (rx ry rz)^2
VolumeRatioSq(P, Q, R) ==
  Mul(Mul(Div(P, Sq(rx)), Div(Q, Sq(ry))), Div(R, Sq(rz)))

(* C7: for strictly positive (a, b, c) the ellipsoid with the computed
   semi-axes passes through the vertices, and every other origin-centred
   axis-aligned ellipsoid through them, with positive semi-axes (p, q, r),
   (a/2p)^2 + (b/2q)^2 + (c/2r)^2 = 1, has a strictly larger product p q r.
   Checked for every p^2, q^2 of the candidate grid, with r^2 the value the
   equation forces. *)
C7_MinimalVolumeEllipsoid ==
  (pc = "figure" /\ AllPositive) =>
    /\ Positive(rx) /\ Positive(ry) /\ Positive(rz)
    /\ VertexForm(Sq(rx), Sq(ry), Sq(rz)) = One
    /\ \A P \in CandSq, Q \in CandSq :
         Positive(Remainder(P, Q)) =>
           LET R == ThirdSq(P, Q)
           IN  /\ VertexForm(P, Q, R) = One
               /\ (<<P, Q, R>> # <<Sq(rx), Sq(ry), Sq(rz)>>) =>
                    Less(One, VolumeRatioSq(P, Q, R))

C7_Witness ==
  /\ pc = "figure" /\ AllPositive /\ a # b
  /\ Sq(rx) \in CandSq /\ Sq(ry) \in CandSq
  /\ ThirdSq(Sq(rx), Sq(ry)) = Sq(rz)
  /\ \E P \in CandSq, Q \in CandSq :
       /\ Positive(Remainder(P, Q))
       /\ <<P, Q>> # <<Sq(rx), Sq(ry)>>
       /\ ThirdSq(P, Q) \in CandSq

(* C8: zero or negative dimensions are not validated: every step of the
   function stays enabled up to its return, and the call still computes 8
   vertex entries, the same 12 edges and the semi-axes; with a zero
   dimension the 8 entries are not pairwise distinct, and with a negative
   dimension index i holds the opposite of the sign its bit gives. *)
C8_NoValidationOfDimensions ==
  (~AllPositive) =>
    /\ pc # "done" => ENABLED Next
    /\ (pc = "done") =>
         /\ Len(corners) = 8
         /\ Len(edges) = 12 /\ EdgePairs = OneBitPairs
         /\ \A t \in 1..3 : RadiusOf(t) = Mul(Div(Sqrt3, Two), DimOf(t))
         /\ (\E t \in 1..3 : DimOf(t) = Zero) => Cardinality(CornerSet) < 8
         /\ \A t \in 1..3 :
              Sign(DimOf(t)) < 0 =>
                \A idx \in 0..7 :
                  Sign(corners[idx + 1][t]) = -SignOfBit(Bit(idx, 3 - t))

C8_Witness ==
  /\ pc = "done" /\ Sign(a) < 0 /\ b = Zero /\ Positive(c)
  /\ Len(corners) = 8 /\ Cardinality(CornerSet) = 4
  /\ Positive(corners[1][1])

IsDrawing(e) == e.op \in {"plot", "scatter", "text", "plot_surface"}
IndexLabels == <<"0", "1", "2", "3", "4", "5", "6", "7">>

(* C9: with annotate_vertices true the renderer receives one marker and one
   label per vertex, 8 of each, in index order 0..7, the label's text the
   index and its position the vertex; with the flag false it receives none.
   In both cases the 12 edge segments come before this pass and the surface
   after it. *)
C9_AnnotationPass ==
  (pc \in {"limits", "labels", "show", "done"}) =>
    LET drawn == SelectSeq(calls, IsDrawing)
        notes == SelectSeq(calls, IsAnnotation)
    IN  /\ Len(drawn) = 12 + Len(notes) + 1
        /\ \A n \in 1..12 : drawn[n].op = "plot"
        /\ \A n \in 1..Len(notes) : drawn[12 + n] = notes[n]
        /\ drawn[Len(drawn)].op = "plot_surface"
        /\ (~annotate_vertices) => notes = <<>>
        /\ annotate_vertices =>
             /\ Len(notes) = 16
             /\ \A idx \in 0..7 :
                  /\ notes[2 * idx + 1] = Call("scatter", corners[idx + 1], "")
                  /\ notes[2 * idx + 2] =
                       Call("text", corners[idx + 1], IndexLabels[idx + 1])

C9_Witness ==
  /\ pc = "done" /\ annotate_vertices /\ AllPositive /\ a # b
  /\ Len(SelectSeq(calls, IsAnnotation)) = 16
  /\ calls[14 + 16].text = "7"

(* C10: for strictly positive (a, b, c) the limits [-m/2, m/2], m the
   largest dimension, are set on X, Y and Z; every vertex coordinate lies
   inside them, and the semi-axis along the longest dimension, (sqrt(3)/2) m,
   is strictly greater than m/2. *)
C10_LimitsHoldCuboidNotEllipsoid ==
  (pc \in {"labels", "show", "done"} /\ AllPositive) =>
    LET limits == SelectSeq(calls, IsLimit)
        m == CHOOSE x \in {a, b, c} : Leq(a, x) /\ Leq(b, x) /\ Leq(c, x)
        lo == Neg(Div(m, Two))
        hi == Div(m, Two)
    IN  /\ Len(limits) = 3
        /\ limits[1].op = "set_xlim" /\ limits[2].op = "set_ylim"
        /\ limits[3].op = "set_zlim"
        /\ \A n \in 1..3 : limits[n].nums = <<lo, hi>>
        /\ \A n \in 1..Len(corners) : \A t \in 1..3 :
             Leq(lo, corners[n][t]) /\ Leq(corners[n][t], hi)
        /\ \A t \in 1..3 :
             DimOf(t) = m =>
               /\ RadiusOf(t) = Mul(Div(Sqrt3, Two), m)
               /\ Less(hi, RadiusOf(t))

C10_Witness ==
  /\ pc = "done" /\ AllPositive /\ Less(a, b) /\ Less(c, a)
  /\ max_range = b
  /\ Less(Div(b, Two), ry)

====
